---- MODULE Spec2Model ----
(***************************************************************************)
(* quiddity: component-local stores built by create / combine.             *)
(*                                                                         *)
(* One store definition (the arguments given to create) is shared by two   *)
(* component instances.  Each instance owns the hooks the factory          *)
(* allocates: the two refs (setRef, storeRef) and the useState cell, which *)
(* is modelled as React keeps it: a committed value plus the queue of      *)
(* updater closures dispatched since the last render.                      *)
(***************************************************************************)
EXTENDS Integers, Sequences, FiniteSets, TLC

\* ------------------------------------------------------------------ bounds
\* Total number of action invocations made in one behaviour.
MaxCalls == 3

\* ------------------------------------------------------------------ values
Null == [t |-> "null", n |-> 0, s |-> ""]
Num(n) == [t |-> "number", n |-> n, s |-> ""]
Str(s) == [t |-> "string", n |-> 0, s |-> s]
\* A callable value; s names the closure.
Fn(name) == [t |-> "function", n |-> 0, s |-> name]

\* undefined + 1
NaN == [t |-> "number", n |-> 0, s |-> "NaN"]

\* typeof value === "function"
IsFunction(v) == v.t = "function"

\* ----------------------------------------------------------------- objects
\* A JavaScript object literal: its entries in enumeration (insertion) order.
Entry(k, v) == [k |-> k, v |-> v]

Keys(o) == {o[j].k : j \in 1..Len(o)}

Has(o, k) == k \in Keys(o)

IndexOf(o, k) == CHOOSE j \in 1..Len(o) : o[j].k = k

Get(o, k) == o[IndexOf(o, k)].v

\* { ...o, [k]: v }: an existing key keeps its position, a new key is appended.
Put(o, k, v) ==
  IF Has(o, k) THEN [o EXCEPT ![IndexOf(o, k)].v = v] ELSE Append(o, Entry(k, v))

RECURSIVE Spread(_, _)
\* { ...a, ...b }: the entries of b are put one at a time, each on the object
\* the one before produced.
Spread(a, b) ==
  IF b = <<>> THEN a
  ELSE CHOOSE r \in {Spread(o, Tail(b)) : o \in {Put(a, Head(b).k, Head(b).v)}} : TRUE

RECURSIVE PickReduce(_, _)
PickReduce(acc, entries) ==
  IF entries = <<>> THEN acc
  ELSE IF IsFunction(Head(entries).v) THEN PickReduce(acc, Tail(entries))
  ELSE PickReduce(Put(acc, Head(entries).k, Head(entries).v), Tail(entries))

\* pickState without the filter.
pickStateUnfiltered(store) == Spread(<<>>, store)

\* Object.entries(store).filter(value is not a function).reduce(spread)
pickState(store) == PickReduce(<<>>, store)

\* ------------------------------------------------------- update descriptors
ObjectUpdate(partial) == [form |-> "object", partial |-> partial, fn |-> ""]
FunctionUpdate(name) == [form |-> "function", partial |-> <<>>, fn |-> name]

\* The updater functions the stores' actions pass to set.
\*   increment: (state) => ({ count: state.count + 1 })
\*   nothing:   (state) => ({})
\*   nextStep:  (state) => ({ step: state.step + 1 }), NaN when state has no step
CallUpdater(name, s) ==
  CASE name = "increment" -> <<Entry("count", Num(Get(s, "count").n + 1))>>
    [] name = "nextStep" ->
         <<Entry("step", IF Has(s, "step") THEN Num(Get(s, "step").n + 1) ELSE NaN)>>
    [] OTHER -> <<>>

\* merge with the function-form test left out: an updater is spread like an object
\* and contributes no entry.
mergeNoCall(prev, update) == Spread(prev, update.partial)

\* merge with the spreads in the other order: { ...partial, ...prev }.
mergeKeepFirst(prev, update) ==
  LET partial == IF update.form = "function" THEN CallUpdater(update.fn, prev)
                 ELSE update.partial
  IN Spread(partial, prev)

\* merge restricted to the keys the state already has.
mergeKnownKeys(prev, update) ==
  LET partial == IF update.form = "function" THEN CallUpdater(update.fn, prev)
                 ELSE update.partial
  IN Spread(prev, SelectSeq(partial, LAMBDA e : Has(prev, e.k)))

\* merge returning the partial alone.
mergeReplace(prev, update) ==
  IF update.form = "function" THEN CallUpdater(update.fn, prev) ELSE update.partial

\* The closure handed to setState:
\*   (prev) => { partial = typeof update === "function" ? update(prev) : update
\*               return { ...prev, ...partial } }
merge(prev, update) ==
  LET partial == IF update.form = "function" THEN CallUpdater(update.fn, prev)
                 ELSE update.partial
  IN Spread(prev, partial)

RECURSIVE ProcessQueue(_, _)
\* React's useState on render: the queued updaters run in dispatch order, each
\* on the result m of the one before.
ProcessQueue(s, q) ==
  IF q = <<>> THEN s
  ELSE CHOOSE r \in {ProcessQueue(m, Tail(q)) : m \in {merge(s, Head(q))}} : TRUE

\* ------------------------------------------------------- store definitions
Instances == {"A", "B"}

\* Arguments of the delayedInc, setCount and setLabel calls that are made.
Delays == {1, 5}
CountArgs == {3, 5}
LabelArgs == {"next"}

\* The action closures a builder returns, by name, and what one invocation
\* with argument arg passes to set, in order (delayedInc does so after its wait).
ActionUpdates(name, arg) ==
  CASE name = "inc" -> <<FunctionUpdate("increment")>>
    [] name = "doubleInc" -> <<FunctionUpdate("increment"), FunctionUpdate("increment")>>
    [] name = "delayedInc" -> <<FunctionUpdate("increment")>>
    [] name = "setCount" -> <<ObjectUpdate(<<Entry("count", arg)>>)>>
    [] name = "setLabel" -> <<ObjectUpdate(<<Entry("label", arg)>>)>>
    [] name = "setCountOne" -> <<ObjectUpdate(<<Entry("count", Num(1))>>)>>
    [] name = "touch" -> <<ObjectUpdate(<<>>)>>
    [] name = "touchFn" -> <<FunctionUpdate("nothing")>>
    [] name = "addExtra" -> <<ObjectUpdate(<<Entry("extra", Num(1))>>)>>
    [] name = "bumpStep" -> <<FunctionUpdate("nextStep")>>
    [] OTHER -> <<>>

ActionArgs(name) ==
  CASE name = "setCount" -> {Num(n) : n \in CountArgs}
    [] name = "setLabel" -> {Str(l) : l \in LabelArgs}
    [] name = "delayedInc" -> {Num(d) : d \in Delays}
    [] OTHER -> {Null}

IsAsync(name) == name = "delayedInc"

ActionNames == {"inc", "doubleInc", "delayedInc", "setCount", "setLabel", "setCountOne",
                "touch", "touchFn", "addExtra", "bumpStep"}

\* The derive functions given as second argument.
\*   doubleCount: (state) => ({ doubleCount: state.count * 2 })
\*   shadowCount: (state) => ({ count: state.count + 1 })
CallDerive(name, s) ==
  CASE name = "doubleCount" -> <<Entry("doubleCount", Num(Get(s, "count").n * 2))>>
    [] name = "shadowCount" -> <<Entry("count", Num(Get(s, "count").n + 1))>>
    [] OTHER -> <<>>

\* A call of create: which create is called (index.ts, or the one taking a
\* derive function), the shape of arg1 (a builder function, a builder made by
\* combine, or an initial-state object) and arg2 (absent, an actions builder
\* or a derive function).
\*   store:   what a hand-written builder returns
\*   actions: what the actions builder given to combine / create returns
Definition(api, form, store, actions, arg2, derive) ==
  [api |-> api, form |-> form, store |-> store, actions |-> actions,
   arg2 |-> arg2, derive |-> derive]

Defs == {"counter", "incOnly", "derived", "combineOverlap", "deriveOverlap",
         "missingBuilder", "initial", "openKeys", "idle", "eager"}

DefOf(name) ==
  CASE name = "counter" ->
         Definition("index", "builder",
           <<Entry("count", Num(0)), Entry("label", Str("a")), Entry("inc", Fn("inc")),
             Entry("setCount", Fn("setCount")), Entry("setLabel", Fn("setLabel"))>>,
           <<>>, "none", "")
    [] name = "incOnly" ->
         Definition("index", "builder",
           <<Entry("count", Num(0)), Entry("inc", Fn("inc")),
             Entry("doubleInc", Fn("doubleInc")), Entry("delayedInc", Fn("delayedInc"))>>,
           <<>>, "none", "")
    [] name = "derived" ->
         Definition("derive", "builder",
           <<Entry("count", Num(1)), Entry("inc", Fn("inc")), Entry("setCount", Fn("setCount"))>>,
           <<>>, "derive", "doubleCount")
    [] name = "combineOverlap" ->
         Definition("derive", "combine", <<>>,
           <<Entry("count", Fn("setCountOne"))>>, "none", "")
    [] name = "deriveOverlap" ->
         Definition("derive", "builder",
           <<Entry("count", Num(0)), Entry("inc", Fn("inc"))>>,
           <<>>, "derive", "shadowCount")
    [] name = "missingBuilder" ->
         Definition("index", "initial", <<>>, <<>>, "none", "")
    [] name = "openKeys" ->
         Definition("index", "builder",
           <<Entry("inc", Fn("inc")), Entry("count", Num(0)),
             Entry("addExtra", Fn("addExtra")), Entry("label", Str("a"))>>,
           <<>>, "none", "")
    [] name = "idle" ->
         Definition("index", "builder",
           <<Entry("count", Num(0)), Entry("label", Str("a")), Entry("inc", Fn("inc")),
             Entry("touch", Fn("touch")), Entry("touchFn", Fn("touchFn"))>>,
           <<>>, "none", "")
    [] name = "eager" ->
         Definition("index", "builder",
           <<Entry("count", Num(0)), Entry("inc", Fn("inc"))>>, <<>>, "none", "")
    [] name = "pairPlain" ->
         Definition("index", "initial", <<>>,
           <<Entry("inc", Fn("inc")), Entry("setLabel", Fn("setLabel")),
             Entry("doubleInc", Fn("doubleInc"))>>, "builder", "")
    [] name = "pairOverlap" ->
         Definition("index", "initial", <<>>,
           <<Entry("count", Fn("setCountOne"))>>, "builder", "")
    [] name = "pairData" ->
         Definition("index", "initial", <<>>,
           <<Entry("inc", Fn("inc")), Entry("step", Num(1)),
             Entry("bumpStep", Fn("bumpStep"))>>, "builder", "")
    [] OTHER ->
         Definition("index", "initial", <<>>,
           <<Entry("inc", Fn("inc")), Entry("setLabel", Fn("setLabel"))>>, "builder", "")

\* The same initial state and actions builder given to create directly and,
\* wrapped by combine, to the create that takes a builder.
PairDefs == {"pairPlain", "pairOverlap", "pairData"}

\* create(combine(initialState, actions)) for the pair's initialState, actions.
TwinOf(name) == Definition("derive", "combine", <<>>, DefOf(name).actions, "none", "")

\* The initial-state object literal given to combine or to create.
InitialStateOf(name) ==
  CASE name = "combineOverlap" -> <<Entry("count", Num(0))>>
    [] name = "missingBuilder" -> <<Entry("count", Num(0))>>
    [] name = "initial" -> <<Entry("count", Num(0)), Entry("label", Str("a"))>>
    [] name = "pairPlain" -> <<Entry("count", Num(0)), Entry("label", Str("a"))>>
    [] name = "pairOverlap" -> <<Entry("count", Num(0))>>
    [] name = "pairData" -> <<Entry("count", Num(0))>>
    [] OTHER -> <<>>

\* ------------------------------------------------------------------ combine
\* combine(state, actions) = (set) => ({ ...state, ...actions(set) });
\* this is what the returned builder yields when create invokes it.
combine(state, actions) == Spread(state, actions)

\* The calls of set a builder makes itself while it is being executed, in order:
\* the eager builder is
\*   (set) => { set({ count: 5 }); set((state) => ({ count: state.count + 1 }))
\*              return { count: 0, inc } }
EagerUpdates(name) ==
  IF name = "eager"
  THEN <<ObjectUpdate(<<Entry("count", Num(5))>>), FunctionUpdate("increment")>>
  ELSE <<>>

\* arg1(set), for arg1 a builder function.
CallBuilder(d, init) ==
  IF d.form = "combine" THEN combine(init, d.actions) ELSE d.store

\* ----------------------------------------------------------------- useRef
NullRef == [null |-> TRUE, current |-> <<>>]
Ref(o) == [null |-> FALSE, current |-> o]

MissingBuilderMessage == "create(initialState, builder) requires a builder"
NotAFunctionMessage == "arg1 is not a function"

Built(store, s) ==
  [threw |-> FALSE, message |-> "", store |-> store, state |-> s, built |-> 1]
Threw(message) ==
  [threw |-> TRUE, message |-> message, store |-> <<>>, state |-> <<>>, built |-> 0]

\* createInitializer without the arg2 test: a missing builder yields no actions.
createInitializerLazy(d, init) ==
  IF d.form # "initial"
  THEN LET store == CallBuilder(d, init) IN Built(store, pickState(store))
  ELSE Built(Spread(init, d.actions), pickState(init))

\* The useState initializer of index.ts's create.
createInitializer(d, init) ==
  IF d.form # "initial"
  THEN LET store == CallBuilder(d, init) IN Built(store, pickState(store))
  ELSE IF d.arg2 = "none"
  THEN Threw(MissingBuilderMessage)
  ELSE LET actions == d.actions
           store == Spread(init, actions)
       IN Built(store, pickState(init))

\* The useState initializer of the create that takes a derive function.
createDeriveInitializer(d, init) ==
  IF d.form = "initial"
  THEN Threw(NotAFunctionMessage)
  ELSE LET store == CallBuilder(d, init) IN Built(store, pickState(store))

Initializer(d, init) ==
  IF d.api = "index" THEN createInitializer(d, init)
  ELSE createDeriveInitializer(d, init)

\* createResult returning the state alone.
createResultStateOnly(store, s) == s

\* The object index.ts's factory returns: { ...storeRef.current, ...state }
createResult(store, s) == Spread(store, s)

\* derived = arg2?.(state)
Derived(d, s) == IF d.arg2 = "derive" THEN CallDerive(d.derive, s) ELSE <<>>

\* createDeriveResult deriving from the store snapshot instead of the state.
createDeriveResultStale(d, store, s) ==
  Spread(Spread(store, s), Derived(d, pickState(store)))

\* { ...storeRef.current, ...state, ...(derived ?? {}) }
createDeriveResult(d, store, s) == Spread(Spread(store, s), Derived(d, s))

Result(d, store, s) ==
  IF d.api = "index" THEN createResult(store, s) ELSE createDeriveResult(d, store, s)

\* ------------------------------------------------------------------- state
VARIABLES
  def,           \* the store definition the factory was created from
  initialState,  \* the initial-state object the factory closes over
  phase,         \* per instance: "uninit", "materialized", "failed", "discarded"
  setRef,        \* setRef.current: "null", or the instance whose setState it calls
  storeRef,      \* storeRef.current
  state,         \* the committed value of the useState cell
  queue,         \* update descriptors dispatched to setState, not yet rendered
  returned,      \* the object the last factory invocation returned
  error,         \* the message of the error the last factory invocation threw
  pending,       \* delays of the delayedInc calls still waiting
  builderCalls,  \* how many times a builder function has been invoked
  calls,         \* per action name, the invocations that have issued their updates
  last,          \* history: the last render that merged updates: the state before, the updates
  raced          \* history: two delayedInc calls have been pending at the same time

vars == <<def, initialState, phase, setRef, storeRef, state, queue, returned,
          error, pending, builderCalls, calls, last, raced>>

RECURSIVE Sum(_, _)
Sum(f, S) ==
  IF S = {} THEN 0 ELSE LET x == CHOOSE y \in S : TRUE IN f[x] + Sum(f, S \ {x})

CallsOf(i) == Sum(calls[i], ActionNames) + Cardinality(pending[i])

TotalCalls == Sum([i \in Instances |-> CallsOf(i)], Instances)

\* React's setState of instance j: queued while j is mounted, ignored otherwise.
setState(qs, j, update) ==
  IF phase[j] = "materialized" THEN [qs EXCEPT ![j] = Append(@, update)] ELSE qs

\* setRefCurrent resolving the update on the state of the render that wired it.
setRefCurrentStale(qs, j, update) ==
  setState(qs, j, ObjectUpdate(merge(state[j], update)))

\* setRefCurrent writing to one store shared by all instances.
setRefCurrentShared(qs, j, update) ==
  [k \in Instances |-> IF phase[k] = "materialized" THEN Append(qs[k], update) ELSE qs[k]]

\* setRefCurrent building the updater without handing it to setState.
setRefCurrentUnscheduled(qs, j, update) == qs

\* setRef.current = (update) => { setState((prev) => ...) }, as wired by
\* instance j's factory invocation.
setRefCurrent(qs, j, update) == setState(qs, j, update)

\* set dropping an update while an earlier one awaits its render.
setOncePerRender(qs, i, update) ==
  IF setRef[i] = "null" \/ qs[setRef[i]] # <<>> THEN qs
  ELSE setRefCurrent(qs, setRef[i], update)

\* set keeping an early update for the capability wired later.
setBuffered(qs, i, update) ==
  IF setRef[i] = "null" THEN [qs EXCEPT ![i] = Append(@, update)]
  ELSE setRefCurrent(qs, setRef[i], update)

\* The forwarding set handed to the builder of instance i.
set(qs, i, update) ==
  IF setRef[i] = "null" THEN qs ELSE setRefCurrent(qs, setRef[i], update)

RECURSIVE setEach(_, _, _)
setEach(qs, i, updates) ==
  IF updates = <<>> THEN qs
  ELSE setEach(set(qs, i, Head(updates)), i, Tail(updates))

NoRender == [prev |-> <<>>, batch |-> <<>>]

Init ==
  /\ def \in Defs
  /\ initialState = InitialStateOf(def)
  /\ phase = [i \in Instances |-> "uninit"]
  /\ setRef = [i \in Instances |-> "null"]
  /\ storeRef = [i \in Instances |-> NullRef]
  /\ state = [i \in Instances |-> <<>>]
  /\ queue = [i \in Instances |-> <<>>]
  /\ returned = [i \in Instances |-> NullRef]
  /\ error = [i \in Instances |-> ""]
  /\ pending = [i \in Instances |-> {}]
  /\ builderCalls = [i \in Instances |-> 0]
  /\ calls = [i \in Instances |-> [a \in ActionNames |-> 0]]
  /\ last = [i \in Instances |-> NoRender]
  /\ raced = [i \in Instances |-> FALSE]

\* Mount leaving setRef.current to be assigned by the next render.
MountUnwired(i) ==
  /\ phase[i] \in {"uninit", "failed"}
  /\ LET r == Initializer(DefOf(def), initialState) IN
       IF r.threw
       THEN /\ phase' = [phase EXCEPT ![i] = "failed"]
            /\ error' = [error EXCEPT ![i] = r.message]
            /\ UNCHANGED <<storeRef, state, returned, builderCalls, queue>>
       ELSE /\ phase' = [phase EXCEPT ![i] = "materialized"]
            /\ error' = [error EXCEPT ![i] = ""]
            /\ storeRef' = [storeRef EXCEPT ![i] = Ref(r.store)]
            /\ state' = [state EXCEPT ![i] = r.state]
            /\ queue' = setEach(queue, i, EagerUpdates(def))
            /\ returned' = [returned EXCEPT ![i] = Ref(Result(DefOf(def), r.store, r.state))]
            /\ builderCalls' = [builderCalls EXCEPT ![i] = @ + r.built]
  /\ UNCHANGED <<def, initialState, setRef, pending, calls, last, raced>>

\* Mount with setRef.current assigned ahead of useState: the target is wired
\* even when the initializer throws.
MountWiringFirst(i) ==
  /\ phase[i] \in {"uninit", "failed"}
  /\ setRef' = [setRef EXCEPT ![i] = i]
  /\ LET r == Initializer(DefOf(def), initialState) IN
       IF r.threw
       THEN /\ phase' = [phase EXCEPT ![i] = "failed"]
            /\ error' = [error EXCEPT ![i] = r.message]
            /\ UNCHANGED <<storeRef, state, returned, builderCalls, queue>>
       ELSE /\ phase' = [phase EXCEPT ![i] = "materialized"]
            /\ error' = [error EXCEPT ![i] = ""]
            /\ storeRef' = [storeRef EXCEPT ![i] = Ref(r.store)]
            /\ state' = [state EXCEPT ![i] = r.state]
            /\ queue' = setEach(queue, i, EagerUpdates(def))
            /\ returned' = [returned EXCEPT ![i] = Ref(Result(DefOf(def), r.store, r.state))]
            /\ builderCalls' = [builderCalls EXCEPT ![i] = @ + r.built]
  /\ UNCHANGED <<def, initialState, pending, calls, last, raced>>

\* The first factory invocation of instance i (again after a failed one).
Mount(i) ==
  /\ phase[i] \in {"uninit", "failed"}
  /\ LET r == Initializer(DefOf(def), initialState) IN
       IF r.threw
       THEN /\ phase' = [phase EXCEPT ![i] = "failed"]
            /\ error' = [error EXCEPT ![i] = r.message]
            /\ UNCHANGED <<setRef, storeRef, state, returned, builderCalls, queue>>
       ELSE /\ phase' = [phase EXCEPT ![i] = "materialized"]
            /\ error' = [error EXCEPT ![i] = ""]
            /\ storeRef' = [storeRef EXCEPT ![i] = Ref(r.store)]
            /\ state' = [state EXCEPT ![i] = r.state]
            /\ queue' = setEach(queue, i, EagerUpdates(def))
            /\ setRef' = [setRef EXCEPT ![i] = i]
            /\ returned' = [returned EXCEPT ![i] = Ref(Result(DefOf(def), r.store, r.state))]
            /\ builderCalls' = [builderCalls EXCEPT ![i] = @ + r.built]
  /\ UNCHANGED <<def, initialState, pending, calls, last, raced>>

\* Render with the initializer evaluated on every invocation, as useState(init())
\* would: the builder runs again, its result is dropped.
RenderRebuilding(i) ==
  /\ phase[i] = "materialized"
  /\ LET s == ProcessQueue(state[i], queue[i]) IN
       /\ state' = [state EXCEPT ![i] = s]
       /\ returned' = [returned EXCEPT ![i] = Ref(Result(DefOf(def), storeRef[i].current, s))]
  /\ queue' = [queue EXCEPT ![i] = <<>>]
  /\ setRef' = [setRef EXCEPT ![i] = i]
  /\ last' = IF queue[i] = <<>> THEN last
              ELSE [last EXCEPT ![i] = [prev |-> state[i], batch |-> queue[i]]]
  /\ builderCalls' = [builderCalls EXCEPT ![i] = @ + 1]
  /\ UNCHANGED <<def, initialState, phase, storeRef, error, pending, calls, raced>>

\* Render committing the derived values along with the state.
RenderWritingBack(i) ==
  /\ phase[i] = "materialized"
  /\ LET s == ProcessQueue(state[i], queue[i]) IN
       /\ state' = [state EXCEPT ![i] = Spread(s, Derived(DefOf(def), s))]
       /\ returned' = [returned EXCEPT ![i] = Ref(Result(DefOf(def), storeRef[i].current, s))]
  /\ queue' = [queue EXCEPT ![i] = <<>>]
  /\ setRef' = [setRef EXCEPT ![i] = i]
  /\ last' = IF queue[i] = <<>> THEN last
              ELSE [last EXCEPT ![i] = [prev |-> state[i], batch |-> queue[i]]]
  /\ UNCHANGED <<def, initialState, phase, storeRef, error, pending, builderCalls, calls, raced>>

\* A later factory invocation of instance i: useState runs the queued updaters.
Render(i) ==
  /\ phase[i] = "materialized"
  /\ LET s == ProcessQueue(state[i], queue[i]) IN
       /\ state' = [state EXCEPT ![i] = s]
       /\ returned' = [returned EXCEPT ![i] = Ref(Result(DefOf(def), storeRef[i].current, s))]
  /\ queue' = [queue EXCEPT ![i] = <<>>]
  /\ setRef' = [setRef EXCEPT ![i] = i]
  /\ last' = IF queue[i] = <<>> THEN last
              ELSE [last EXCEPT ![i] = [prev |-> state[i], batch |-> queue[i]]]
  /\ UNCHANGED <<def, initialState, phase, storeRef, error, pending, builderCalls, calls, raced>>

\* The component calls the action under key k of the object it was returned.
Call(i, k, arg) ==
  /\ phase[i] = "materialized"
  /\ ~returned[i].null
  /\ Has(returned[i].current, k)
  /\ IsFunction(Get(returned[i].current, k))
  /\ TotalCalls < MaxCalls
  /\ LET name == Get(returned[i].current, k).s IN
       /\ arg \in ActionArgs(name)
       /\ IF IsAsync(name)
          THEN /\ arg.n \notin pending[i]
               /\ pending' = [pending EXCEPT ![i] = @ \cup {arg.n}]
               /\ raced' = [raced EXCEPT ![i] = @ \/ pending[i] # {}]
               /\ UNCHANGED <<queue, calls>>
          ELSE /\ queue' = setEach(queue, i, ActionUpdates(name, arg))
               /\ calls' = [calls EXCEPT ![i][name] = @ + 1]
               /\ UNCHANGED <<pending, raced>>
  /\ UNCHANGED <<def, initialState, phase, setRef, storeRef, state, returned, error,
                 builderCalls, last>>

\* The wait of a pending delayedInc(d) of instance i ends and it calls set.
Resolve(i, d) ==
  /\ d \in pending[i]
  /\ pending' = [pending EXCEPT ![i] = @ \ {d}]
  /\ queue' = setEach(queue, i, ActionUpdates("delayedInc", Num(d)))
  /\ calls' = [calls EXCEPT ![i]["delayedInc"] = @ + 1]
  /\ UNCHANGED <<def, initialState, phase, setRef, storeRef, state, returned, error,
                 builderCalls, last, raced>>

\* The host discards instance i.
Unmount(i) ==
  /\ phase[i] = "materialized"
  /\ phase' = [phase EXCEPT ![i] = "discarded"]
  /\ UNCHANGED <<def, initialState, setRef, storeRef, state, queue, returned, error,
                 pending, builderCalls, calls, last, raced>>

AllArgs == {Null} \cup {Num(n) : n \in CountArgs \cup Delays} \cup {Str(l) : l \in LabelArgs}

Next ==
  \/ \E i \in Instances : Mount(i)
  \/ \E i \in Instances : Render(i)
  \/ \E i \in Instances, k \in ActionNames \cup {"count"}, arg \in AllArgs : Call(i, k, arg)
  \/ \E i \in Instances, d \in Delays : Resolve(i, d)
  \/ \E i \in Instances : Unmount(i)

Spec == Init /\ [][Next]_vars

\* setState schedules a re-render of its component and React carries it out:
\* a render that has updates to merge is not postponed forever.
\* The largest number of issued increments that is followed to its render.
MaxIssued == 3

\* The stores whose updates are followed to their render.
FairDefs == {"incOnly"}

FairInit == Init /\ def \in FairDefs

SpecFair == FairInit /\ [][Next]_vars /\ \A i \in Instances : WF_vars(Render(i))

\* ------------------------------------------------------- the two forms paired
\* Instance "A" is a component using create(initialState, actions), instance
\* "B" one using create(combine(initialState, actions)); both are rendered and
\* have their actions called in step.
DefAt(i) == IF i = "A" THEN DefOf(def) ELSE TwinOf(def)

PairInit ==
  /\ def \in PairDefs
  /\ initialState = InitialStateOf(def)
  /\ phase = [i \in Instances |-> "uninit"]
  /\ setRef = [i \in Instances |-> "null"]
  /\ storeRef = [i \in Instances |-> NullRef]
  /\ state = [i \in Instances |-> <<>>]
  /\ queue = [i \in Instances |-> <<>>]
  /\ returned = [i \in Instances |-> NullRef]
  /\ error = [i \in Instances |-> ""]
  /\ pending = [i \in Instances |-> {}]
  /\ builderCalls = [i \in Instances |-> 0]
  /\ calls = [i \in Instances |-> [a \in ActionNames |-> 0]]
  /\ last = [i \in Instances |-> NoRender]
  /\ raced = [i \in Instances |-> FALSE]

\* The first factory invocation of both components.
PairMount ==
  /\ \A i \in Instances : phase[i] = "uninit"
  /\ LET r == [i \in Instances |-> Initializer(DefAt(i), initialState)] IN
       /\ phase' = [i \in Instances |-> IF r[i].threw THEN "failed" ELSE "materialized"]
       /\ error' = [i \in Instances |-> r[i].message]
       /\ storeRef' = [i \in Instances |->
                         IF r[i].threw THEN storeRef[i] ELSE Ref(r[i].store)]
       /\ state' = [i \in Instances |-> IF r[i].threw THEN state[i] ELSE r[i].state]
       /\ setRef' = [i \in Instances |-> IF r[i].threw THEN setRef[i] ELSE i]
       /\ returned' = [i \in Instances |->
                         IF r[i].threw THEN returned[i]
                         ELSE Ref(Result(DefAt(i), r[i].store, r[i].state))]
       /\ builderCalls' = [i \in Instances |-> builderCalls[i] + r[i].built]
  /\ UNCHANGED <<def, initialState, queue, pending, calls, last, raced>>

\* A later factory invocation of both components.
PairRender ==
  /\ \A i \in Instances : phase[i] = "materialized"
  /\ state' = [i \in Instances |-> ProcessQueue(state[i], queue[i])]
  /\ returned' = [i \in Instances |->
                    Ref(Result(DefAt(i), storeRef[i].current,
                               ProcessQueue(state[i], queue[i])))]
  /\ queue' = [i \in Instances |-> <<>>]
  /\ setRef' = [i \in Instances |-> i]
  /\ last' = [i \in Instances |->
                IF queue[i] = <<>> THEN last[i] ELSE [prev |-> state[i], batch |-> queue[i]]]
  /\ UNCHANGED <<def, initialState, phase, storeRef, error, pending, builderCalls, calls, raced>>

\* Both components call the action they were returned under key k.
PairCall(k, arg) ==
  /\ \A i \in Instances :
       /\ phase[i] = "materialized"
       /\ Has(returned[i].current, k)
       /\ IsFunction(Get(returned[i].current, k))
       /\ ~IsAsync(Get(returned[i].current, k).s)
       /\ arg \in ActionArgs(Get(returned[i].current, k).s)
       /\ CallsOf(i) < MaxCalls
  /\ queue' = setEach(setEach(queue, "A", ActionUpdates(Get(returned["A"].current, k).s, arg)),
                      "B", ActionUpdates(Get(returned["B"].current, k).s, arg))
  /\ calls' = [i \in Instances |->
                 [calls[i] EXCEPT ![Get(returned[i].current, k).s] = @ + 1]]
  /\ UNCHANGED <<def, initialState, phase, setRef, storeRef, state, returned, error,
                 pending, builderCalls, last, raced>>

PairNext ==
  \/ PairMount
  \/ PairRender
  \/ \E k \in ActionNames \cup {"count"}, arg \in AllArgs : PairCall(k, arg)

SpecPair == PairInit /\ [][PairNext]_vars

\* ================================================================== claims

\* C1: a mapping-form update U rendered against state S gives S with U's
\* entries overwritten or added: keys(S) \cup keys(U), U's values on U's keys,
\* S's values elsewhere.  When several updates are rendered together and the
\* last is a mapping, its keys hold its values.
C1_ShallowMerge ==
  \A i \in Instances :
    LET batch == last[i].batch
        S == last[i].prev
        T == state[i]
    IN /\ (Len(batch) = 1 /\ batch[1].form = "object") =>
            LET U == batch[1].partial IN
              /\ Keys(T) = Keys(S) \cup Keys(U)
              /\ \A k \in Keys(U) : Get(T, k) = Get(U, k)
              /\ \A k \in Keys(S) \ Keys(U) : Get(T, k) = Get(S, k)
       /\ (batch # <<>> /\ batch[Len(batch)].form = "object") =>
            LET U == batch[Len(batch)].partial IN
              \A k \in Keys(U) : Get(T, k) = Get(U, k)

\* setCount(3) against {count: 0, label: "a"} has been rendered.
C1_Witness ==
  \E i \in Instances :
    /\ def = "counter"
    /\ last[i].batch = <<ObjectUpdate(<<Entry("count", Num(3))>>)>>
    /\ Get(last[i].prev, "count") = Num(0)
    /\ Get(state[i], "count") = Num(3)
    /\ Get(state[i], "label") = Str("a")

\* C2: when only delayed increments have been issued and all of them have
\* resolved and been rendered, the count the component is returned is the
\* initial count (0) plus the number of resolved actions, whatever the order
\* in which the waits ended.
C2_NoLostUpdate ==
  \A i \in Instances :
    ( /\ def = "incOnly"
      /\ phase[i] = "materialized"
      /\ calls[i]["inc"] = 0
      /\ calls[i]["doubleInc"] = 0
      /\ queue[i] = <<>> ) =>
    Get(returned[i].current, "count").n = calls[i]["delayedInc"]

\* Two delayed increments were pending together, both resolved, and one render
\* merged both.
C2_Witness ==
  \E i \in Instances :
    /\ def = "incOnly"
    /\ phase[i] = "materialized"
    /\ raced[i]
    /\ pending[i] = {}
    /\ queue[i] = <<>>
    /\ calls[i]["delayedInc"] = 2
    /\ calls[i]["inc"] = 0
    /\ calls[i]["doubleInc"] = 0
    /\ Len(last[i].batch) = 2
    /\ Get(returned[i].current, "count") = Num(2)

\* C3: a function-form increment is applied to the state as it is when the
\* update is merged: after a render whose last update is an increment, count
\* is the value left by the latest earlier mapping update of count in the same
\* render (or, without one, the count before the render) plus the increments
\* merged since.
C3_UpdaterSeesCurrentState ==
  \A i \in Instances :
    LET batch == last[i].batch
        n == Len(batch)
        setters == {m \in 1..n : batch[m].form = "object" /\ Has(batch[m].partial, "count")}
        j == IF setters = {} THEN 0 ELSE CHOOSE m \in setters : \A m2 \in setters : m2 <= m
        base == IF j = 0 THEN Get(last[i].prev, "count").n
                ELSE Get(batch[j].partial, "count").n
        incs == Cardinality({m \in (j + 1)..n :
                               batch[m].form = "function" /\ batch[m].fn = "increment"})
    IN (n > 0 /\ batch[n].form = "function" /\ batch[n].fn = "increment") =>
         Get(state[i], "count").n = base + incs

\* setCount(3) then inc, merged by one render on top of count 0: count is 4.
C3_Witness ==
  \E i \in Instances :
    /\ def = "counter"
    /\ last[i].batch = <<ObjectUpdate(<<Entry("count", Num(3))>>), FunctionUpdate("increment")>>
    /\ Get(last[i].prev, "count") = Num(0)
    /\ Get(state[i], "count") = Num(4)

\* C4: every update an action issues is applied, in order: with increments
\* only, the rendered count plus the increments still queued equals the number
\* of increments issued, 1 per inc and per resolved delayedInc, 2 per doubleInc.
C4_AllUpdatesApplied ==
  \A i \in Instances :
    (def = "incOnly" /\ phase[i] = "materialized") =>
      Get(state[i], "count").n + Len(queue[i])
        = calls[i]["inc"] + 2 * calls[i]["doubleInc"] + calls[i]["delayedInc"]

\* One doubleInc, rendered: count went from 0 to 2 in one render.
C4_Witness ==
  \E i \in Instances :
    /\ def = "incOnly"
    /\ calls[i]["doubleInc"] = 1
    /\ calls[i]["inc"] = 0
    /\ calls[i]["delayedInc"] = 0
    /\ Len(last[i].batch) = 2
    /\ Get(last[i].prev, "count") = Num(0)
    /\ queue[i] = <<>>
    /\ Get(state[i], "count") = Num(2)

\* C5: a store built with combine whose actions builder returns a key of the
\* initial state never completes a render: the first factory invocation fails
\* with "combine keys overlap: count" and returns no object.
C5_CombineOverlapFails ==
  \A i \in Instances :
    ( /\ DefOf(def).form = "combine"
      /\ Keys(DefOf(def).actions) \cap Keys(initialState) # {} ) =>
    /\ phase[i] \in {"uninit", "failed"}
    /\ returned[i].null
    /\ phase[i] = "failed" => error[i] = "combine keys overlap: count"

\* C6: a store built with a derive function that returns a state key or an
\* action key of the builder's output never completes a render: the first
\* factory invocation fails with "derive keys overlap: count".
C6_DeriveOverlapFails ==
  \A i \in Instances :
    ( /\ DefOf(def).arg2 = "derive"
      /\ DefOf(def).form = "builder"
      /\ Keys(CallDerive(DefOf(def).derive, pickState(DefOf(def).store)))
           \cap Keys(DefOf(def).store) # {} ) =>
    /\ phase[i] \in {"uninit", "failed"}
    /\ returned[i].null
    /\ phase[i] = "failed" => error[i] = "derive keys overlap: count"

\* C7: create(initialState) without a builder fails on the first factory
\* invocation with the missing-builder error: the instance never materializes,
\* no builder runs, no store is retained, nothing is returned and no update is
\* ever queued.
C7_MissingBuilderFailsEagerly ==
  \A i \in Instances :
    ( /\ DefOf(def).api = "index"
      /\ DefOf(def).form = "initial"
      /\ DefOf(def).arg2 = "none" ) =>
    /\ phase[i] \in {"uninit", "failed"}
    /\ phase[i] = "failed" => error[i] = MissingBuilderMessage
    /\ builderCalls[i] = 0
    /\ storeRef[i].null
    /\ setRef[i] = "null"
    /\ returned[i].null
    /\ queue[i] = <<>>

C7_Witness ==
  \E i \in Instances :
    /\ def = "missingBuilder"
    /\ phase[i] = "failed"
    /\ error[i] = MissingBuilderMessage

\* C8: instances are isolated.  A step changes the hooks, the returned object,
\* the pending waits and the history of at most one instance and never the
\* initial-state object the factory closes over; and an instance none of whose
\* updates has been rendered holds the initial state, whatever the other
\* instance has done.
C8_InstancesIsolated ==
  /\ [](\A i \in Instances :
          (phase[i] \in {"materialized", "discarded"} /\ last[i] = NoRender) =>
            state[i] = pickState(IF DefOf(def).form = "builder" THEN DefOf(def).store
                                 ELSE Spread(InitialStateOf(def), DefOf(def).actions)))
  /\ [][/\ initialState' = initialState
        /\ \A i, j \in Instances :
             ( /\ i # j
               /\ <<phase[i], setRef[i], storeRef[i], state[i], queue[i], returned[i],
                    error[i], pending[i], builderCalls[i], calls[i], last[i]>>'
                  # <<phase[i], setRef[i], storeRef[i], state[i], queue[i], returned[i],
                      error[i], pending[i], builderCalls[i], calls[i], last[i]>> ) =>
             <<phase[j], setRef[j], storeRef[j], state[j], queue[j], returned[j],
               error[j], pending[j], builderCalls[j], calls[j], last[j]>>'
             = <<phase[j], setRef[j], storeRef[j], state[j], queue[j], returned[j],
                 error[j], pending[j], builderCalls[j], calls[j], last[j]>>]_vars

\* Both instances of create(initialState, actions) are mounted; one has
\* rendered an increment and a new label, the other still shows the seed.
C8_Witness ==
  \E i, j \in Instances :
    /\ def = "initial"
    /\ i # j
    /\ phase[i] = "materialized"
    /\ phase[j] = "materialized"
    /\ last[j] = NoRender
    /\ Get(returned[i].current, "count") = Num(1)
    /\ Get(returned[i].current, "label") = Str("next")
    /\ Get(returned[j].current, "count") = Num(0)
    /\ Get(returned[j].current, "label") = Str("a")

\* C9: the derived entries of the returned object are derive applied to the
\* state of the same render; with doubleCount, returned.doubleCount is twice
\* returned.count.
C9_DerivedFresh ==
  \A i \in Instances :
    (~returned[i].null /\ DefOf(def).api = "derive" /\ DefOf(def).arg2 = "derive") =>
      /\ LET D == CallDerive(DefOf(def).derive, state[i]) IN
           \A k \in Keys(D) : Get(returned[i].current, k) = Get(D, k)
      /\ DefOf(def).derive = "doubleCount" =>
           Get(returned[i].current, "doubleCount").n
             = 2 * Get(returned[i].current, "count").n

\* count 1 -> 2 by one rendered inc: doubleCount is 4.
C9_Witness ==
  \E i \in Instances :
    /\ def = "derived"
    /\ calls[i]["inc"] = 1
    /\ last[i].batch = <<FunctionUpdate("increment")>>
    /\ Get(last[i].prev, "count") = Num(1)
    /\ Get(returned[i].current, "count") = Num(2)
    /\ Get(returned[i].current, "doubleCount") = Num(4)

\* C10: the returned object is actions, then state, then derived values: every
\* key of the current state carries the state's value, every key derive
\* produces carries the derived value, and the remaining keys are those of the
\* store snapshot with its values.
C10_ReturnedPrecedence ==
  \A i \in Instances :
    ~returned[i].null =>
      LET R == returned[i].current
          D == IF DefOf(def).api = "derive" /\ DefOf(def).arg2 = "derive"
               THEN CallDerive(DefOf(def).derive, state[i]) ELSE <<>>
      IN /\ Keys(R) = Keys(storeRef[i].current) \cup Keys(state[i]) \cup Keys(D)
         /\ \A k \in Keys(state[i]) : Get(R, k) = Get(state[i], k)
         /\ \A k \in Keys(D) : Get(R, k) = Get(D, k)
         /\ \A k \in Keys(R) \ (Keys(state[i]) \cup Keys(D)) :
              Get(R, k) = Get(storeRef[i].current, k)

C12_BuilderInvokedOnce ==
  \A i \in Instances :
    /\ phase[i] \in {"materialized", "discarded"} => builderCalls[i] = 1
    /\ phase[i] \in {"uninit", "failed"} => builderCalls[i] = 0

\* An instance that has rendered updates twice over and still counts one
\* builder invocation.
C12_Witness ==
  \E i \in Instances :
    /\ def = "incOnly"
    /\ phase[i] = "materialized"
    /\ last[i].batch # <<>>
    /\ Get(last[i].prev, "count").n >= 1
    /\ builderCalls[i] = 1

\* C13: the actions snapshot is captured at materialization and never changes:
\* no step changes storeRef.current of a materialized instance, and as long as
\* the updates rendered so far ranged over state keys only, every callable
\* entry of the snapshot is returned by every render under its key.
C13_ActionsStable ==
  /\ [](\A i \in Instances :
          ( /\ ~returned[i].null
            /\ \A k \in Keys(state[i]) :
                 /\ Has(storeRef[i].current, k)
                 /\ Get(storeRef[i].current, k).t # "function" ) =>
          \A m \in 1..Len(storeRef[i].current) :
            storeRef[i].current[m].v.t = "function" =>
              /\ Has(returned[i].current, storeRef[i].current[m].k)
              /\ Get(returned[i].current, storeRef[i].current[m].k)
                   = storeRef[i].current[m].v)
  /\ [][\A i \in Instances :
          phase[i] = "materialized" => storeRef'[i] = storeRef[i]]_vars

\* setCount(3) has been rendered and the returned object still carries the
\* actions captured at construction.
C13_Witness ==
  \E i \in Instances :
    /\ def = "counter"
    /\ phase[i] = "materialized"
    /\ last[i].batch # <<>>
    /\ Get(state[i], "count") = Num(3)
    /\ Get(returned[i].current, "inc") = Fn("inc")
    /\ Get(returned[i].current, "setCount") = Fn("setCount")
    /\ Get(returned[i].current, "setLabel") = Fn("setLabel")

C15_FormsEquivalent ==
  /\ (phase["A"] = "failed") = (phase["B"] = "failed")
  /\ returned["A"] = returned["B"]

\* C16: two mapping updates U1 then U2 rendered on state S give what one
\* mapping update with the shallow union of U1 then U2 gives: the keys of S,
\* U1 and U2, with U2's value where U2 has the key, else U1's, else S's.
C16_SequentialComposition ==
  \A i \in Instances :
    LET batch == last[i].batch IN
      ( /\ Len(batch) = 2
        /\ batch[1].form = "object"
        /\ batch[2].form = "object" ) =>
      LET S == last[i].prev
          U1 == batch[1].partial
          U2 == batch[2].partial
          T == state[i]
      IN /\ Keys(T) = Keys(S) \cup Keys(U1) \cup Keys(U2)
         /\ \A k \in Keys(T) :
              Get(T, k) = IF Has(U2, k) THEN Get(U2, k)
                          ELSE IF Has(U1, k) THEN Get(U1, k) ELSE Get(S, k)
         /\ T = merge(S, ObjectUpdate(Spread(U1, U2)))

\* setCount(3) then setCount(5), merged by one render: count is 5, label
\* is untouched.
C16_Witness ==
  \E i \in Instances :
    /\ def = "counter"
    /\ last[i].batch = <<ObjectUpdate(<<Entry("count", Num(3))>>),
                         ObjectUpdate(<<Entry("count", Num(5))>>)>>
    /\ Get(state[i], "count") = Num(5)
    /\ Get(state[i], "label") = Str("a")

\* C17: a render that merges only empty updates, set({}) or set of an updater
\* returning {}, leaves the state with the entries it had: merge(S, {}) = S.
C17_EmptyUpdateKeepsState ==
  \A i \in Instances :
    LET batch == last[i].batch IN
      ( /\ batch # <<>>
        /\ \A m \in 1..Len(batch) :
             \/ batch[m].form = "object" /\ batch[m].partial = <<>>
             \/ batch[m].form = "function" /\ batch[m].fn = "nothing" ) =>
      state[i] = last[i].prev

\* After an increment, touch and touchFn are merged by one render: count is
\* still 1 and label still "a".
C17_Witness ==
  \E i \in Instances :
    /\ def = "idle"
    /\ last[i].batch = <<ObjectUpdate(<<>>), FunctionUpdate("nothing")>>
    /\ last[i].prev = <<Entry("count", Num(1)), Entry("label", Str("a"))>>
    /\ state[i] = <<Entry("count", Num(1)), Entry("label", Str("a"))>>

\* C18: an update accepted by a mounted instance does not stay pending: while
\* the instance stays mounted, a non-empty queue leads to a render that has
\* merged it, and with increments only, n increments issued lead to a returned
\* count of at least n (n up to MaxIssued).
C18_UpdatesRendered ==
  /\ \A i \in Instances :
       (phase[i] = "materialized" /\ queue[i] # <<>>)
         ~> (phase[i] = "discarded" \/ (queue[i] = <<>> /\ last[i].batch # <<>>))
  /\ \A i \in Instances : \A n \in 1..MaxIssued :
       ( /\ def = "incOnly"
         /\ phase[i] = "materialized"
         /\ calls[i]["inc"] + 2 * calls[i]["doubleInc"] + calls[i]["delayedInc"] >= n )
         ~> ( \/ phase[i] = "discarded"
              \/ /\ def = "incOnly"
                 /\ phase[i] = "materialized"
                 /\ Get(returned[i].current, "count").n >= n )

\* An increment was issued and the following render returned count 1.
C18_Witness ==
  \E i \in Instances :
    /\ def = "incOnly"
    /\ phase[i] = "materialized"
    /\ calls[i]["inc"] = 1
    /\ queue[i] = <<>>
    /\ last[i].batch = <<FunctionUpdate("increment")>>
    /\ Get(returned[i].current, "count") = Num(1)

\* C19: a set call made before setRef.current is wired, here by the eager
\* builder while the first construction executes it, is dropped: the mount
\* raises no error, nothing is queued by it, and as long as no action has been
\* called the state is the non-callable part of the builder's output, however
\* many renders follow.
C19_EarlySetDropped ==
  \A i \in Instances :
    (def = "eager" /\ phase[i] = "materialized" /\ CallsOf(i) = 0) =>
      /\ error[i] = ""
      /\ queue[i] = <<>>
      /\ last[i] = NoRender
      /\ state[i] = pickState(DefOf(def).store)
      /\ returned[i].current = DefOf(def).store

\* The eager builder ran once, called set twice, and the instance rendered
\* with count 0.
C19_Witness ==
  \E i \in Instances :
    /\ def = "eager"
    /\ Len(EagerUpdates(def)) = 2
    /\ phase[i] = "materialized"
    /\ builderCalls[i] = 1
    /\ CallsOf(i) = 0
    /\ queue[i] = <<>>
    /\ state[i] = <<Entry("count", Num(0))>>

\* The keys only derive produces for instance i: keys of derive(state) that
\* the builder's output does not have.
DerivedOnlyKeys(i) ==
  IF phase[i] = "materialized" /\ DefOf(def).arg2 = "derive"
  THEN Keys(Derived(DefOf(def), state[i])) \ Keys(storeRef[i].current)
  ELSE {}

\* C20: derived values are never written into the state: the state of a
\* mounted instance, which is what derive is given, has no key that only derive
\* produces, and neither had any state that an update of the last rendered
\* batch was merged into, which is what a function-form update is given; the
\* derived keys are in the returned object only.
C20_DerivedNotInState ==
  \A i \in Instances : \A k \in DerivedOnlyKeys(i) :
    /\ ~Has(state[i], k)
    /\ \A m \in 0..Len(last[i].batch) :
         ~Has(ProcessQueue(last[i].prev, SubSeq(last[i].batch, 1, m)), k)
    /\ Has(returned[i].current, k)

\* The store with count and derived doubleCount after one rendered increment:
\* count is 2, the returned doubleCount is 4, and the state is { count: 2 }.
C20_Witness ==
  \E i \in Instances :
    /\ def = "derived"
    /\ DerivedOnlyKeys(i) = {"doubleCount"}
    /\ last[i].batch = <<FunctionUpdate("increment")>>
    /\ state[i] = <<Entry("count", Num(2))>>
    /\ Get(returned[i].current, "doubleCount") = Num(4)

\* C21: once the first factory invocation of an instance has returned, set
\* has a live target: every step that leaves an instance materialized leaves
\* its setRef.current wired, and every set call an action of a mounted
\* instance makes, synchronously or when its wait ends, is appended to the
\* instance's queue, none is dropped.
C21_TargetLive ==
  [][\A i \in Instances :
       /\ phase'[i] = "materialized" => setRef'[i] = i
       /\ phase[i] = "materialized" =>
            \A a \in ActionNames :
              calls'[i][a] = calls[i][a] + 1 =>
                \E arg \in AllArgs : queue'[i] = queue[i] \o ActionUpdates(a, arg)]_vars

\* An update was rendered, and an update issued after that render is queued.
C21_Witness ==
  \E i \in Instances :
    /\ phase[i] = "materialized"
    /\ setRef[i] = i
    /\ last[i].batch # <<>>
    /\ queue[i] # <<>>
    /\ state[i] = ProcessQueue(last[i].prev, last[i].batch)

\* C22: a failed construction materializes nothing and is not recovered.  An
\* instance whose factory invocation threw retains no store, has no update
\* target wired, no state, no queued update and nothing returned; it never
\* leaves that condition and its error never changes, whatever is invoked
\* later; and every instance of the same definition that is invoked fails
\* with the same error, none materializes.
C22_FailureNotRecovered ==
  [][\A i \in Instances :
       /\ phase'[i] = "failed" =>
            /\ error'[i] # ""
            /\ storeRef'[i].null
            /\ setRef'[i] = "null"
            /\ returned'[i].null
            /\ state'[i] = <<>>
            /\ queue'[i] = <<>>
            /\ \A j \in Instances :
                 /\ phase'[j] \in {"uninit", "failed"}
                 /\ phase'[j] = "failed" => error'[j] = error'[i]
       /\ phase[i] = "failed" =>
            /\ phase'[i] = "failed"
            /\ error'[i] = error[i]]_vars

\* Both instances of the store created without a builder were invoked and
\* both threw the missing-builder error.
C22_Witness ==
  /\ def = "missingBuilder"
  /\ \A i \in Instances :
       /\ phase[i] = "failed"
       /\ error[i] = MissingBuilderMessage
       /\ storeRef[i].null
       /\ setRef[i] = "null"

====
